---- MODULE Spec2Model ----
(***************************************************************************)
(* Model of the data cleaning and preparation pipeline of analysis.py:     *)
(* read_csv, dropna, drop_duplicates, to_numeric(errors="coerce"), the     *)
(* outlier filter and the pd.cut feature.                                  *)
(*                                                                         *)
(* A CSV cell is a sequence of characters (<<>> is an empty cell).  A      *)
(* DataFrame cell is a record [k, v, s]: k = "nan" (missing), k = "num"    *)
(* (a number, v in hundredths) or k = "str" (a string, s its characters). *)
(* A DataFrame is a sequence of rows [idx, c]: idx is the pandas index     *)
(* label (the position of the row in the file) and c maps column names to  *)
(* cells.                                                                  *)
(***************************************************************************)
EXTENDS Integers, Sequences, FiniteSets, TLC

VARIABLES csv, df, prev, loaded, out1, pass, pc

vars == <<csv, df, prev, loaded, out1, pass, pc>>

\* Largest number of rows of a generated input file.
MaxRows == 3

-----------------------------------------------------------------------------
(* Columns *)

numeric_cols ==
    <<"Age", "Daily_Screen_Time_Hours", "Sleep_Duration_Hours",
      "GAD_7_Score", "PHQ_9_Score">>

NumericColSet == {numeric_cols[i] : i \in 1..Len(numeric_cols)}

Columns == NumericColSet \cup {"Primary_Platform", "GAD_7_Severity"}

CategoryCol == "Screen_Time_Category"

-----------------------------------------------------------------------------
(* Cells *)

NaN == [k |-> "nan", v |-> 0, s |-> <<>>]

Num(n) == [k |-> "num", v |-> n, s |-> <<>>]

Str(t) == [k |-> "str", v |-> 0, s |-> t]

Digits == <<"0", "1", "2", "3", "4", "5", "6", "7", "8", "9">>

IsDigit(ch) == \E i \in 1..10 : Digits[i] = ch

DigitVal(ch) == (CHOOSE i \in 1..10 : Digits[i] = ch) - 1

RECURSIVE DigitsVal(_)
\* value of a sequence of digits read as a decimal integer
DigitsVal(t) ==
    IF t = <<>> THEN 0
    ELSE 10 * DigitsVal(SubSeq(t, 1, Len(t) - 1)) + DigitVal(t[Len(t)])

AllDigits(t) == \A i \in 1..Len(t) : IsDigit(t[i])

\* the fraction digits as hundredths (input tokens carry at most 2 of them)
FracVal(t) ==
    IF Len(t) = 0 THEN 0
    ELSE IF Len(t) = 1 THEN 10 * DigitVal(t[1])
    ELSE 10 * DigitVal(t[1]) + DigitVal(t[2])

\* unsigned decimal literal: digits, optionally a point and more digits
ParseUnsigned(t) ==
    LET dots == {i \in 1..Len(t) : t[i] = "."} IN
    IF dots = {} THEN
        IF Len(t) > 0 /\ AllDigits(t) THEN Num(100 * DigitsVal(t)) ELSE NaN
    ELSE IF Cardinality(dots) > 1 THEN NaN
    ELSE LET p  == CHOOSE i \in dots : TRUE
             ip == SubSeq(t, 1, p - 1)
             fp == SubSeq(t, p + 1, Len(t))
         IN IF AllDigits(ip) /\ AllDigits(fp) /\ Len(ip) + Len(fp) > 0
            THEN Num(100 * DigitsVal(ip) + FracVal(fp))
            ELSE NaN

\* the numeric value of a string, NaN when it is not a number
\* (pd.to_numeric(..., errors="coerce") on one string)
ParseNumeric(t) ==
    IF Len(t) > 0 /\ t[1] = "-"
    THEN LET u == ParseUnsigned(Tail(t)) IN
         IF u.k = "num" THEN Num(0 - u.v) ELSE NaN
    ELSE ParseUnsigned(t)

\* pd.to_numeric(..., errors="coerce") on one cell of a column
to_numeric(cell) ==
    IF cell.k = "str" THEN ParseNumeric(cell.s) ELSE cell

-----------------------------------------------------------------------------
(* read_csv *)

\* strings read_csv reads as a missing value
na_values == {<<>>, <<"N", "A">>}

\* a column whose present cells are all numbers is read as a numeric column
ColumnIsNumeric(file, col) ==
    \A i \in 1..Len(file) :
        file[i][col] \in na_values \/ ParseNumeric(file[i][col]).k = "num"

read_csv(file) ==
    [i \in 1..Len(file) |->
        [idx |-> i,
         c   |-> [col \in Columns |->
                    IF file[i][col] \in na_values THEN NaN
                    ELSE IF ColumnIsNumeric(file, col)
                         THEN ParseNumeric(file[i][col])
                         ELSE Str(file[i][col])]]]

-----------------------------------------------------------------------------
(* The five cleaning steps, each a function from DataFrame to DataFrame *)

HasNaN(row) == \E col \in DOMAIN row.c : row.c[col].k = "nan"

RECURSIVE Filter(_, _)
\* the rows of d whose position is in keep, in their order
Filter(d, keep) ==
    IF d = <<>> THEN <<>>
    ELSE LET n == Len(d)
             front == Filter(SubSeq(d, 1, n - 1), keep)
         IN IF n \in keep THEN Append(front, d[n]) ELSE front

\* dropna restricted to the numeric columns (subset=numeric_cols)
dropna_numeric_subset(d) ==
    Filter(d, {i \in 1..Len(d) :
                 \A col \in NumericColSet : d[i].c[col].k # "nan"})

\* STEP 1: df.dropna()
dropna(d) == Filter(d, {i \in 1..Len(d) : ~HasNaN(d[i])})

\* df.duplicated(): a row equal in every column to an earlier row
duplicated(d, i) == \E j \in 1..(i - 1) : d[j].c = d[i].c

\* drop_duplicates keeping the last occurrence (keep="last")
drop_duplicates_keep_last(d) ==
    Filter(d, {i \in 1..Len(d) :
                 ~(\E j \in (i + 1)..Len(d) : d[j].c = d[i].c)})

\* STEP 2: df.drop_duplicates()
drop_duplicates(d) == Filter(d, {i \in 1..Len(d) : ~duplicated(d, i)})

\* STEP 3: the pd.to_numeric loop over numeric_cols
coerce_numeric(d) ==
    [i \in 1..Len(d) |->
        [idx |-> d[i].idx,
         c   |-> [col \in DOMAIN d[i].c |->
                    IF col \in NumericColSet THEN to_numeric(d[i].c[col])
                    ELSE d[i].c[col]]]]

\* x <= hi on a cell; a comparison with NaN is False
le(cell, hi) == cell.k = "num" /\ cell.v <= hi

\* Series.between(lo, hi), inclusive on both sides; NaN is False
between(cell, lo, hi) == cell.k = "num" /\ lo <= cell.v /\ cell.v <= hi

\* the outlier filter with the two conditions joined by | instead of &
handle_outliers_or(d) ==
    Filter(d, {i \in 1..Len(d) :
                 \/ le(d[i].c["Daily_Screen_Time_Hours"], 1600)
                 \/ between(d[i].c["Sleep_Duration_Hours"], 200, 1200)})

\* STEP 4: the outlier filter (16 hours, 2 to 12 hours, in hundredths)
handle_outliers(d) ==
    Filter(d, {i \in 1..Len(d) :
                 /\ le(d[i].c["Daily_Screen_Time_Hours"], 1600)
                 /\ between(d[i].c["Sleep_Duration_Hours"], 200, 1200)})

bins == <<0, 200, 500, 800, 1600>>

labels == <<<<"Low">>, <<"Moderate">>, <<"High">>, <<"Very High">>>>

\* pd.cut with include_lowest=True: the first bin also holds its left edge
cut_include_lowest(cell) ==
    IF cell.k # "num" THEN NaN
    ELSE LET hit == {b \in 1..(Len(bins) - 1) :
                        /\ (bins[b] < cell.v \/ (b = 1 /\ bins[b] = cell.v))
                        /\ cell.v <= bins[b + 1]}
         IN IF hit = {} THEN NaN
            ELSE Str(labels[CHOOSE b \in hit : TRUE])

\* pd.cut with right=False: bins closed on the left, open on the right
cut_left_closed(cell) ==
    IF cell.k # "num" THEN NaN
    ELSE LET hit == {b \in 1..(Len(bins) - 1) :
                        bins[b] <= cell.v /\ cell.v < bins[b + 1]}
         IN IF hit = {} THEN NaN
            ELSE Str(labels[CHOOSE b \in hit : TRUE])

\* pd.cut(x, bins, labels) with right=True, include_lowest=False
cut(cell) ==
    IF cell.k # "num" THEN NaN
    ELSE LET hit == {b \in 1..(Len(bins) - 1) :
                        bins[b] < cell.v /\ cell.v <= bins[b + 1]}
         IN IF hit = {} THEN NaN
            ELSE Str(labels[CHOOSE b \in hit : TRUE])

\* the category column followed by a dropna of the unlabeled rows
add_category_dropna(d) ==
    dropna([i \in 1..Len(d) |->
        [idx |-> d[i].idx,
         c   |-> [col \in (DOMAIN d[i].c) \cup {CategoryCol} |->
                    IF col = CategoryCol
                    THEN cut(d[i].c["Daily_Screen_Time_Hours"])
                    ELSE d[i].c[col]]]])

\* STEP 5: df["Screen_Time_Category"] = pd.cut(...)
add_category(d) ==
    [i \in 1..Len(d) |->
        [idx |-> d[i].idx,
         c   |-> [col \in (DOMAIN d[i].c) \cup {CategoryCol} |->
                    IF col = CategoryCol
                    THEN cut(d[i].c["Daily_Screen_Time_Hours"])
                    ELSE d[i].c[col]]]]

-----------------------------------------------------------------------------
(* Input files *)

MkRow(age, screen, sleep, gad, phq, platform, severity) ==
    [col \in Columns |->
        CASE col = "Age" -> age
          [] col = "Daily_Screen_Time_Hours" -> screen
          [] col = "Sleep_Duration_Hours" -> sleep
          [] col = "GAD_7_Score" -> gad
          [] col = "PHQ_9_Score" -> phq
          [] col = "Primary_Platform" -> platform
          [] OTHER -> severity]

IG == <<"Instagram">>
TT == <<"TikTok">>
Mild == <<"Mild">>

BaseRow == MkRow(<<"2","5">>, <<"3">>, <<"7">>, <<"5">>, <<"4">>, IG, Mild)

RawRows ==
    { BaseRow,
      \* the same numbers written differently
      MkRow(<<"2","5">>, <<"3",".","0">>, <<"7",".","0">>, <<"5">>, <<"4">>, IG, Mild),
      \* numeric cells that are present but not numbers
      MkRow(<<"a","b","c">>, <<"3">>, <<"7">>, <<"5">>, <<"4">>, IG, Mild),
      MkRow(<<"x","y","z">>, <<"3">>, <<"7">>, <<"5">>, <<"4">>, IG, Mild),
      MkRow(<<"2","5">>, <<"3">>, <<"a","b","c">>, <<"5">>, <<"4">>, IG, Mild),
      MkRow(<<"2","5">>, <<"3">>, <<"7">>, <<"5">>, <<"x">>, IG, Mild),
      \* screen time at and around the bin edges
      MkRow(<<"2","5">>, <<"0">>, <<"7">>, <<"5">>, <<"4">>, IG, Mild),
      MkRow(<<"2","5">>, <<"-","1">>, <<"7">>, <<"5">>, <<"4">>, IG, Mild),
      MkRow(<<"2","5">>, <<"2">>, <<"2">>, <<"5">>, <<"4">>, TT, Mild),
      MkRow(<<"2","5">>, <<"5">>, <<"1","2">>, <<"5">>, <<"4">>, IG, Mild),
      MkRow(<<"2","5">>, <<"5",".","0","1">>, <<"7">>, <<"5">>, <<"4">>, IG, Mild),
      MkRow(<<"2","5">>, <<"8">>, <<"7">>, <<"5">>, <<"4">>, IG, Mild),
      MkRow(<<"2","5">>, <<"1","6">>, <<"7">>, <<"5">>, <<"4">>, IG, Mild),
      MkRow(<<"2","5">>, <<"1","7",".","0">>, <<"7">>, <<"5">>, <<"4">>, IG, Mild),
      \* sleep outside the bounds
      MkRow(<<"2","5">>, <<"3">>, <<"1","3">>, <<"5">>, <<"4">>, IG, Mild),
      MkRow(<<"2","5">>, <<"3">>, <<"1",".","9","9">>, <<"5">>, <<"4">>, IG, Mild),
      \* missing cells
      MkRow(<<>>, <<"3">>, <<"7">>, <<"5">>, <<"4">>, IG, Mild),
      MkRow(<<"2","5">>, <<"3">>, <<"7">>, <<"N","A">>, <<"4">>, IG, Mild),
      MkRow(<<"2","5">>, <<"3">>, <<"7">>, <<"5">>, <<"4">>, <<>>, Mild) }

\* the five-row end-to-end scenario: row 3 has a non-numeric age, row 4
\* repeats row 1, row 5 has screen time 20
Scenario ==
    << BaseRow,
       MkRow(<<"3","1">>, <<"6">>, <<"8">>, <<"7">>, <<"9">>, TT, Mild),
       MkRow(<<"a","b","c">>, <<"3">>, <<"7">>, <<"5">>, <<"4">>, IG, Mild),
       BaseRow,
       MkRow(<<"2","5">>, <<"2","0">>, <<"7">>, <<"5">>, <<"4">>, IG, Mild) >>

Files == UNION {[1..n -> RawRows] : n \in 0..MaxRows} \cup {Scenario}

-----------------------------------------------------------------------------
(* The script as a state machine *)

Init ==
    /\ csv \in Files
    /\ df = <<>>
    /\ prev = <<>>
    /\ loaded = <<>>
    /\ out1 = <<>>
    /\ pass = 1
    /\ pc = "load"

\* df = pd.read_csv(...)
Load ==
    /\ pc = "load"
    /\ df' = read_csv(csv)
    /\ loaded' = read_csv(csv)
    /\ prev' = df
    /\ pc' = "step1"
    /\ UNCHANGED <<csv, out1, pass>>

\* STEP 1: df = df.dropna()
Step1 ==
    /\ pc = "step1"
    /\ df' = dropna(df)
    /\ prev' = df
    /\ pc' = "step2"
    /\ UNCHANGED <<csv, loaded, out1, pass>>

\* STEP 2: df = df.drop_duplicates()
Step2 ==
    /\ pc = "step2"
    /\ df' = drop_duplicates(df)
    /\ prev' = df
    /\ pc' = "step3"
    /\ UNCHANGED <<csv, loaded, out1, pass>>

\* STEP 3: the pd.to_numeric loop
Step3 ==
    /\ pc = "step3"
    /\ df' = coerce_numeric(df)
    /\ prev' = df
    /\ pc' = "step4"
    /\ UNCHANGED <<csv, loaded, out1, pass>>

\* STEP 4: the outlier filter
Step4 ==
    /\ pc = "step4"
    /\ df' = handle_outliers(df)
    /\ prev' = df
    /\ pc' = "step5"
    /\ UNCHANGED <<csv, loaded, out1, pass>>

\* STEP 5: the Screen_Time_Category column
Step5 ==
    /\ pc = "step5"
    /\ df' = add_category(df)
    /\ prev' = df
    /\ pc' = "done"
    /\ UNCHANGED <<csv, loaded, out1, pass>>

\* the cleaning steps are run once more, on their own output
Rerun ==
    /\ pc = "done"
    /\ pass = 1
    /\ out1' = df
    /\ pass' = 2
    /\ pc' = "step1"
    /\ UNCHANGED <<csv, df, prev, loaded>>

Next == Load \/ Step1 \/ Step2 \/ Step3 \/ Step4 \/ Step5

Spec == Init /\ [][Next]_vars

NextRerun == Next \/ Rerun

SpecRerun == Init /\ [][NextRerun]_vars

-----------------------------------------------------------------------------
(* Properties *)

Idx(d) == {d[i].idx : i \in 1..Len(d)}

Screen(row) == row.c["Daily_Screen_Time_Hours"]

Sleep(row) == row.c["Sleep_Duration_Hours"]

Label(name) == Str(<<name>>)

\* C1: after the five steps no surviving record has a missing value in any
\* of the five numeric fields.
C1_NoMissingNumeric ==
    pc = "done" =>
        \A i \in 1..Len(df) : \A col \in NumericColSet :
            df[i].c[col].k # "nan"

\* C2: running the five steps again on their own output gives back the
\* same record set: no row dropped, no category changed.
C2_Idempotent ==
    (pc = "done" /\ pass = 2) => df = out1

\* C3: after the five steps no two output records are identical across all
\* fields.
C3_NoIdenticalRecords ==
    pc = "done" =>
        \A i, j \in 1..Len(df) : i < j => df[i].c # df[j].c

\* C4: every surviving record has screen time <= 16 and sleep in [2, 12];
\* an input row with screen time above 16 is gone after step 4 and is never
\* given a category.
C4_Bounds ==
    /\ pc \in {"step5", "done"} =>
          /\ \A i \in 1..Len(df) :
                /\ Screen(df[i]).k = "num" /\ Screen(df[i]).v <= 1600
                /\ Sleep(df[i]).k = "num"
                /\ 200 <= Sleep(df[i]).v /\ Sleep(df[i]).v <= 1200
          /\ \A i \in 1..Len(csv) :
                LET x == ParseNumeric(csv[i]["Daily_Screen_Time_Hours"]) IN
                (x.k = "num" /\ x.v > 1600) => i \notin Idx(df)

C4_Witness ==
    /\ pc = "done"
    /\ \E i \in 1..Len(csv) :
          /\ csv[i]["Daily_Screen_Time_Hours"] = <<"1", "7", ".", "0">>
          /\ i \in Idx(loaded)
          /\ i \notin Idx(df)
    /\ \E i \in 1..Len(df) : Screen(df[i]).v = 1600
    /\ \E i \in 1..Len(df) : Sleep(df[i]).v = 200 \/ Sleep(df[i]).v = 1200

\* C5 as stated: every surviving record carries one of the four labels, and
\* the only unlabeled survivors are those with screen time exactly 0.
C5_OnlyZeroUnlabeled ==
    pc = "done" =>
        \A i \in 1..Len(df) :
            IF Screen(df[i]).k = "num" /\ Screen(df[i]).v = 0
            THEN df[i].c[CategoryCol] = NaN
            ELSE df[i].c[CategoryCol] \in
                    {Label("Low"), Label("Moderate"), Label("High"),
                     Label("Very High")}

\* C5 amended: a surviving record is unlabeled exactly when its screen time
\* is at most 0 (zero or negative); every other survivor carries exactly
\* one of the four labels.
C5_NonPositiveUnlabeled ==
    pc = "done" =>
        \A i \in 1..Len(df) :
            /\ Screen(df[i]).k = "num"
            /\ IF Screen(df[i]).v <= 0
               THEN df[i].c[CategoryCol] = NaN
               ELSE df[i].c[CategoryCol] \in
                       {Label("Low"), Label("Moderate"), Label("High"),
                        Label("Very High")}

C5_Witness ==
    /\ pc = "done"
    /\ \E i \in 1..Len(df) :
          Screen(df[i]).v < 0 /\ df[i].c[CategoryCol] = NaN
    /\ \E i \in 1..Len(df) :
          Screen(df[i]).v = 0 /\ df[i].c[CategoryCol] = NaN
    /\ \E i \in 1..Len(df) : df[i].c[CategoryCol] = Label("Very High")

\* C6: the category depends on screen time alone through the left-open
\* right-closed bins (0,2] Low, (2,5] Moderate, (5,8] High, (8,16] Very
\* High: each upper edge is in the lower bin, 5.01 is High.
C6_Bins ==
    pc = "done" =>
        /\ \A i \in 1..Len(df) :
              LET x   == Screen(df[i]).v
                  cat == df[i].c[CategoryCol]
              IN /\ (0 < x /\ x <= 200) => cat = Label("Low")
                 /\ (200 < x /\ x <= 500) => cat = Label("Moderate")
                 /\ (500 < x /\ x <= 800) => cat = Label("High")
                 /\ (800 < x /\ x <= 1600) => cat = Label("Very High")
                 /\ x = 200 => cat = Label("Low")
                 /\ x = 300 => cat = Label("Moderate")
                 /\ x = 500 => cat = Label("Moderate")
                 /\ x = 501 => cat = Label("High")
                 /\ x = 800 => cat = Label("High")
                 /\ x = 1600 => cat = Label("Very High")
        /\ \A i, j \in 1..Len(df) :
              Screen(df[i]) = Screen(df[j]) =>
                  df[i].c[CategoryCol] = df[j].c[CategoryCol]

C6_Witness ==
    /\ pc = "done"
    /\ \E i \in 1..Len(df) :
          Screen(df[i]).v = 500 /\ df[i].c[CategoryCol] = Label("Moderate")
    /\ \E i \in 1..Len(df) :
          Screen(df[i]).v = 501 /\ df[i].c[CategoryCol] = Label("High")
    /\ \E i \in 1..Len(df) :
          Screen(df[i]).v = 1600 /\ df[i].c[CategoryCol] = Label("Very High")

NoEmptyCell(file) ==
    \A i \in 1..Len(file) : \A col \in Columns : file[i][col] \notin na_values

\* the rows the claim C7 expects to survive
Expected(file) ==
    {i \in 1..Len(file) :
        /\ \A col \in NumericColSet : ParseNumeric(file[i][col]).k = "num"
        /\ ~(\E j \in 1..(i - 1) : file[j] = file[i])
        /\ ParseNumeric(file[i]["Daily_Screen_Time_Hours"]).v <= 1600
        /\ ParseNumeric(file[i]["Sleep_Duration_Hours"]).v >= 200
        /\ ParseNumeric(file[i]["Sleep_Duration_Hours"]).v <= 1200}

\* C7: for an input without empty cells the output is exactly the rows with
\* five parsable numeric fields that are not an exact duplicate of an earlier
\* row and are within the bounds; the five-row scenario leaves rows 1 and 2.
C7_RowSurvival ==
    pc = "done" =>
        /\ NoEmptyCell(csv) => Idx(df) = Expected(csv)
        /\ csv = Scenario => Idx(df) = {1, 2}

\* C8: step 1 removes a record iff at least one of its fields, numeric or
\* categorical, is missing in the input; every other record passes
\* unchanged and in order.
C8_DropnaAllOrNothing ==
    pc = "step2" =>
        /\ \A i \in 1..Len(loaded) :
              (loaded[i].idx \in Idx(df)) <=>
                  (\A col \in Columns : loaded[i].c[col].k # "nan")
        /\ \A i \in 1..Len(df) : df[i] = loaded[df[i].idx]
        /\ \A i, j \in 1..Len(df) : i < j => df[i].idx < df[j].idx

C8_Witness ==
    /\ pc = "step2"
    /\ \E i \in 1..Len(loaded) :
          /\ loaded[i].c["Primary_Platform"] = NaN
          /\ \A col \in NumericColSet : loaded[i].c[col].k # "nan"
          /\ i \notin Idx(df)
    /\ \E i \in 1..Len(loaded) :
          loaded[i].c["GAD_7_Score"] = NaN /\ i \notin Idx(df)
    /\ Len(df) > 0

\* C9: step 5 drops no record and changes no existing field; it only adds
\* the category, which is missing for screen time exactly 0.
C9_CategoryFrame ==
    pc = "done" =>
        /\ Len(df) = Len(prev)
        /\ \A i \in 1..Len(df) :
              /\ df[i].idx = prev[i].idx
              /\ DOMAIN df[i].c = (DOMAIN prev[i].c) \cup {CategoryCol}
              /\ \A col \in (DOMAIN prev[i].c) \ {CategoryCol} :
                    df[i].c[col] = prev[i].c[col]
              /\ Screen(df[i]).v = 0 => df[i].c[CategoryCol] = NaN

C9_Witness ==
    /\ pc = "done"
    /\ Len(df) >= 2
    /\ \E i \in 1..Len(df) :
          Screen(df[i]).v = 0 /\ df[i].c[CategoryCol] = NaN
    /\ \E i \in 1..Len(df) : df[i].c[CategoryCol] = Label("Moderate")

\* C10: the steps only remove rows.  Every record of the table is a distinct
\* input row, in input order; the row count never grows from one step to the
\* next; an output record has the input's categorical cells and the numeric
\* parse of the input's numeric cells; of exact duplicates only the first
\* occurrence is kept.
C10_OnlyRemoves ==
    /\ \A i \in 1..Len(df) : df[i].idx \in 1..Len(csv)
    /\ \A i, j \in 1..Len(df) : i < j => df[i].idx < df[j].idx
    /\ pc \notin {"load", "step1"} => Len(df) <= Len(prev)
    /\ pc = "done" =>
          \A i \in 1..Len(df) :
              LET raw == csv[df[i].idx] IN
              /\ \A col \in Columns \ NumericColSet :
                    df[i].c[col] = Str(raw[col])
              /\ \A col \in NumericColSet :
                    df[i].c[col] = ParseNumeric(raw[col])
    /\ pc \notin {"load", "step1", "step2"} =>
          \A j \in Idx(df) : ~(\E i \in 1..(j - 1) : csv[i] = csv[j])
    /\ pc = "step3" =>
          \A i \in 1..Len(loaded) :
              (/\ \A col \in Columns : loaded[i].c[col].k # "nan"
               /\ ~(\E j \in 1..(i - 1) : loaded[j].c = loaded[i].c))
                  => i \in Idx(df)

C10_Witness ==
    /\ pc = "done"
    /\ \E i, j \in 1..Len(csv) :
          i < j /\ csv[i] = csv[j] /\ i \in Idx(df) /\ j \notin Idx(df)
    /\ Len(df) >= 2

====
